---------------------------- MODULE Spec2Model ----------------------------
(***************************************************************************)
(* Heads-Up Poker Trainer (src/app.js): the card model, the hand           *)
(* evaluator, the betting state machine driven by the page's buttons and   *)
(* timers, and the opponent's decision procedure.                          *)
(*                                                                         *)
(* A card is a number 0..51, its position in the deck the Deck constructor *)
(* builds (suit-major: 13 ranks of the first suit, then the next suit).    *)
(* Chips are whole numbers.  Math.random() draws are inputs, chosen from   *)
(* small sets.                                                             *)
(***************************************************************************)
EXTENDS Integers, Sequences, FiniteSets, TLC

(***************************************************************************)
(* Bounds of the model (not constants of the program).                     *)
(***************************************************************************)
\* startHand is entered at most MaxHands times in one behaviour
MaxHands == 2
\* the player clicks an action control at most MaxClicks times in one match
MaxClicks == 2
\* actionLog keeps at most MaxLog entries; further pushes are dropped
MaxLog == 3
\* at most MaxTimers setTimeout callbacks are pending at a time
MaxTimers == 2

(***************************************************************************)
(* Cards and the deck                                                      *)
(***************************************************************************)
NumSuits == 4
NumRanks == 13
DeckSize == NumSuits * NumRanks
Cards == 0 .. (DeckSize - 1)

\* RANK_VALUES[card.rank]: '2' -> 2 ... 'A' -> 14
RankValue(c) == (c % NumRanks) + 2
\* index of card.suit in SUITS
SuitOf(c) == c \div NumRanks

\* new Deck(): for each suit, for each rank, push
NewDeck == [i \in 1 .. DeckSize |-> i - 1]

Swap(s, a, b) == [s EXCEPT ![a] = s[b], ![b] = s[a]]

\* Math.random() is an input.  A draw d stands for the value d/100; during
\* one shuffle every draw returns the same value, taken from ShuffleDraws
\* (0 deals the player the better hand, 50 the opponent, 83 deals a tie).
ShuffleDraws == {0, 50, 83}
\* Math.floor(Math.random() * (i + 1))
RandomIndex(d, i) == (d * (i + 1)) \div 100

\* Deck.shuffle(): Fisher-Yates from the last index down to 1
RECURSIVE ShuffleFrom(_, _, _)
ShuffleFrom(cards, d, i) ==
  IF i <= 0 THEN cards
  ELSE ShuffleFrom(Swap(cards, i + 1, RandomIndex(d, i) + 1), d, i - 1)
Shuffle(cards, d) == ShuffleFrom(cards, d, Len(cards) - 1)

\* Deck.deal(): cards.pop() returns the last card; undefined on an empty deck
Undefined == -1
DealCard(cards) == IF Len(cards) = 0 THEN Undefined ELSE cards[Len(cards)]
\* the deck after a deal() that leaves the card in it
DealRestKept(cards) == cards
DealRest(cards) == IF Len(cards) = 0 THEN cards ELSE SubSeq(cards, 1, Len(cards) - 1)

(***************************************************************************)
(* Hand evaluator                                                          *)
(***************************************************************************)
\* Array.prototype.sort by descending rank value (stable)
RECURSIVE InsertDesc(_, _)
InsertDesc(sorted, c) ==
  IF sorted = << >> THEN << c >>
  ELSE IF RankValue(Head(sorted)) >= RankValue(c)
       THEN << Head(sorted) >> \o InsertDesc(Tail(sorted), c)
       ELSE << c >> \o sorted
RECURSIVE SortDesc(_)
SortDesc(hand) ==
  IF hand = << >> THEN << >>
  ELSE InsertDesc(SortDesc(SubSeq(hand, 1, Len(hand) - 1)), hand[Len(hand)])

\* [...new Set(values)]: first occurrences, in order
RECURSIVE Unique(_)
Unique(vals) ==
  IF vals = << >> THEN << >>
  ELSE LET rest == Unique(SubSeq(vals, 1, Len(vals) - 1))
           v == vals[Len(vals)]
       IN IF \E k \in 1 .. Len(rest) : rest[k] = v THEN rest ELSE Append(rest, v)

Includes(vals, v) == \E k \in 1 .. Len(vals) : vals[k] = v
\* vals.filter(v => v \notin excl), order kept
RECURSIVE Without(_, _)
Without(vals, excl) ==
  IF vals = << >> THEN << >>
  ELSE IF Head(vals) \in excl THEN Without(Tail(vals), excl)
       ELSE << Head(vals) >> \o Without(Tail(vals), excl)
\* hand.filter(c => c.suit === s), order kept
RECURSIVE OfSuit(_, _)
OfSuit(hand, s) ==
  IF hand = << >> THEN << >>
  ELSE IF SuitOf(Head(hand)) = s THEN << Head(hand) >> \o OfSuit(Tail(hand), s)
       ELSE OfSuit(Tail(hand), s)
\* arr.slice(0, n)
Take(vals, n) == SubSeq(vals, 1, IF Len(vals) < n THEN Len(vals) ELSE n)

\* hand.map(c => RANK_VALUES[c.rank])
ValuesOf(hand) == [k \in 1 .. Len(hand) |-> RankValue(hand[k])]
\* counts[r], with values the rank values of the hand
CountOf(values, r) == Cardinality({k \in 1 .. Len(values) : values[k] = r})
\* suits[s]
SuitCount(hand, s) == Cardinality({k \in 1 .. Len(hand) : SuitOf(hand[k]) = s})
\* the ranks r of the hand with counts[r] in ns
RanksCounted(values, ns) ==
  {r \in {values[k] : k \in 1 .. Len(values)} : CountOf(values, r) \in ns}
\* the suits s with suits[s] >= 5
FlushSuits(hand) == {s \in 0 .. (NumSuits - 1) : SuitCount(hand, s) >= 5}
\* the rank values of the cards of the flush suit, in the hand's order
FlushValues(hand, flushSuits) ==
  IF flushSuits = {} THEN << >>
  ELSE ValuesOf(OfSuit(hand, CHOOSE s \in flushSuits : TRUE))

MaxOf(S) == CHOOSE x \in S : \A y \in S : y <= x
MinOf(S) == CHOOSE x \in S : \A y \in S : x <= y

\* the first index i at which five descending consecutive values start, 0 if none
FirstOrZero(starts) == IF starts = {} THEN 0 ELSE MinOf(starts)
SeqStart(uniq) ==
  FirstOrZero({i \in 1 .. (Len(uniq) - 4) :
                 \A j \in 0 .. 3 : uniq[i + j] - 1 = uniq[i + j + 1]})
IsWheel(uniq) ==
  Includes(uniq, 14) /\ Includes(uniq, 5) /\ Includes(uniq, 4)
    /\ Includes(uniq, 3) /\ Includes(uniq, 2)
\* the high card of the straight in uniq, 0 if there is none
StraightFrom(uniq, start) ==
  IF start # 0 THEN uniq[start]
  ELSE IF IsWheel(uniq) THEN 5 ELSE 0
StraightHigh(uniq) == StraightFrom(uniq, SeqStart(uniq))

\* the returns of evaluate5 (lines 162-263), given what it has computed
Rank5(values, flushValues, isFlush, straightHigh, sfHigh, quads, trips, pairs) ==
  LET tripsRank == MaxOf(trips)
      fhPairs == RanksCounted(values, 2 .. 5) \ {tripsRank}
      highPair == MaxOf(pairs)
      lowPair == MaxOf(pairs \ {highPair})
  IN
  IF isFlush /\ straightHigh # 0 /\ sfHigh # 0
    THEN [category |-> 8, values |-> << sfHigh >>]
  ELSE IF quads # {}
    THEN [category |-> 7,
          values |-> << MaxOf(quads) >> \o Take(Without(values, quads), 1)]
  ELSE IF trips # {} /\ fhPairs # {}
    THEN [category |-> 6, values |-> << tripsRank, MaxOf(fhPairs) >>]
  ELSE IF isFlush
    THEN [category |-> 5, values |-> Take(flushValues, 5)]
  ELSE IF straightHigh # 0
    THEN [category |-> 4, values |-> << straightHigh >>]
  ELSE IF trips # {}
    THEN [category |-> 3,
          values |-> << tripsRank >> \o Take(Without(values, {tripsRank}), 2)]
  ELSE IF Cardinality(pairs) >= 2
    THEN [category |-> 2,
          values |-> << highPair, lowPair >>
                       \o Take(Without(values, {highPair, lowPair}), 1)]
  ELSE IF Cardinality(pairs) = 1
    THEN [category |-> 1,
          values |-> << highPair >> \o Take(Without(values, {highPair}), 3)]
  ELSE [category |-> 0, values |-> Take(values, 5)]

\* evaluate5 once values, the flush and its values are known
Evaluate5Counted(values, flushValues, isFlush) ==
  Rank5(values, flushValues, isFlush,
        StraightHigh(Unique(values)), StraightHigh(Unique(flushValues)),
        RanksCounted(values, {4}), RanksCounted(values, {3}),
        RanksCounted(values, {2}))
\* evaluate5 after its sort
Evaluate5Sorted(hand) ==
  Evaluate5Counted(ValuesOf(hand), FlushValues(hand, FlushSuits(hand)),
                   FlushSuits(hand) # {})
\* evaluate5(hand): {category, values}
Evaluate5(hand5) == Evaluate5Sorted(SortDesc(hand5))

\* the lexicographic comparison of two tie-break vectors, over a's length:
\* 1 if a is greater, -1 if b is greater, 0 if no position decides
RECURSIVE LexCompareFrom(_, _, _)
LexCompareFrom(a, b, i) ==
  IF i > Len(a) THEN 0
  ELSE IF i <= Len(b) /\ a[i] > b[i] THEN 1
  ELSE IF i <= Len(b) /\ a[i] < b[i] THEN -1
  ELSE LexCompareFrom(a, b, i + 1)
LexCompare(a, b) == LexCompareFrom(a, b, 1)

\* does evaluateHand replace best by evalResult?
Better(evalResult, best) ==
  \/ evalResult.category > best.category
  \/ evalResult.category = best.category
       /\ LexCompare(evalResult.values, best.values) = 1

\* the indices of a combination, in increasing order
RECURSIVE Ascending(_)
Ascending(S) ==
  IF S = {} THEN << >>
  ELSE << MinOf(S) >> \o Ascending(S \ {MinOf(S)})

NoHand == [category |-> -1, values |-> << >>]

\* combs: the 5-card combinations of the sorted cards, each in sorted order
Pick(sorted, idx) == [k \in 1 .. 5 |-> sorted[idx[k]]]
Combinations(sorted) ==
  {Pick(sorted, Ascending(s)) :
     s \in {t \in SUBSET (1 .. Len(sorted)) : Cardinality(t) = 5}}
\* the value of best after the loop over the combinations' results
BestOf(results) ==
  IF results = {} THEN NoHand
  ELSE CHOOSE r \in results : \A q \in results : ~Better(q, r)

\* evaluateHand(cards): the best evaluate5 over all 5-card combinations
EvaluateHand(cards) ==
  BestOf({Evaluate5(hand) : hand \in Combinations(SortDesc(cards))})

\* a comparison by the tie-break values alone
CompareValues(evalA, evalB) == LexCompare(evalA.values, evalB.values)
\* a comparison that gives an undecided showdown to the first hand
CompareNoTie(evalA, evalB) ==
  IF evalA.category > evalB.category THEN 1
  ELSE IF evalA.category < evalB.category THEN -1
  ELSE IF LexCompare(evalA.values, evalB.values) = -1 THEN -1 ELSE 1
\* the comparison of compareHands, given the two evaluations
CompareEvals(evalA, evalB) ==
  IF evalA.category > evalB.category THEN 1
  ELSE IF evalA.category < evalB.category THEN -1
  ELSE LexCompare(evalA.values, evalB.values)
\* compareHands(handA, handB, board)
CompareHands(handA, handB, community) ==
  CompareEvals(EvaluateHand(handA \o community),
               EvaluateHand(handB \o community))

\* The hands a shuffle of ShuffleDraws deals, if the hand runs to the river:
\* two cards each from the end of the deck, then burn, three board cards,
\* burn, one, burn, one.  CompareHands is computed once for each of them.
DealtFrom(c, n) ==
  << << c[n], c[n - 1] >>, << c[n - 2], c[n - 3] >>,
     << c[n - 5], c[n - 6], c[n - 7], c[n - 9], c[n - 11] >> >>
DealtHand(d) == DealtFrom(Shuffle(NewDeck, d), DeckSize)
CompareTable ==
  [h \in {DealtHand(d) : d \in ShuffleDraws} |->
     CompareHands(h[1], h[2], h[3])]
\* compareHands(handA, handB, board), looked up where it is tabulated
Tabulated(table, h) ==
  IF h \in DOMAIN table THEN table[h] ELSE CompareHands(h[1], h[2], h[3])
Compare(handA, handB, community) ==
  Tabulated(CompareTable, << handA, handB, community >>)

(***************************************************************************)
(* Program state                                                           *)
(***************************************************************************)
VARIABLES
  stackScenario,      \* gameState.stackScenario
  opponentType,       \* gameState.opponentType
  playerStartStack,   \* gameState.playerStartStack
  opponentStartStack, \* gameState.opponentStartStack
  player,             \* gameState.player: cards, stack, currentBet, folded
  opponent,           \* gameState.opponent
  button,             \* gameState.button
  deck,               \* gameState.deck.cards
  board,              \* gameState.board
  pot,                \* gameState.pot
  stage,              \* gameState.stage
  actionLog,          \* gameState.actionLog
  turn,               \* gameState.turn
  awaitingUser,       \* gameState.awaitingUser
  timers,             \* pending setTimeout callbacks, oldest first
  hidden,             \* the page sections that carry the class "hidden"
  display,            \* what updateDisplay last put on the page
  hands,              \* how many times startHand has been entered
  clicks,             \* how many clicks on the action controls were handled
                      \* since initGame
  history,            \* of the current hand: the stacks at startHand, the chips
                      \* bet and the cards dealt since, the last action executed;
                      \* the latest decision of aiAction with the inputs that
                      \* lead to it;
                      \* the calls of computeEquity that the latest run of
                      \* aiAction or performAnalysis made; the opponent cards
                      \* that updateDisplay has put face up on the page since
                      \* startHand was entered; the amount the last action
                      \* passed to bet(); the calls of evaluateHand that the
                      \* latest run of performAnalysis made; the actors that
                      \* have acted at the stage of the last action
  evaluation          \* the evaluator at work on two hands of its own, away
                      \* from any match: the two hands, and once compared the
                      \* results of evaluateHand and of the comparison

vars == << stackScenario, opponentType, playerStartStack, opponentStartStack,
           player, opponent, button, deck, board, pot, stage, actionLog, turn,
           awaitingUser, timers, hidden, display, hands, clicks, history,
           evaluation >>

\* const bb = 100
bigBlind == 100

Scenarios == {"equal", "short", "big"}
Styles == {"tamayo", "weinman", "jorstad", "aldemir", "salas"}
Seats == {"player", "opponent"}
Other(who) == IF who = "player" THEN "opponent" ELSE "player"

\* the state as one record, so that a handler is a composition of functions
World ==
  [stackScenario |-> stackScenario, opponentType |-> opponentType,
   playerStartStack |-> playerStartStack,
   opponentStartStack |-> opponentStartStack,
   player |-> player, opponent |-> opponent, button |-> button, deck |-> deck,
   board |-> board, pot |-> pot, stage |-> stage, actionLog |-> actionLog,
   turn |-> turn, awaitingUser |-> awaitingUser, timers |-> timers,
   hidden |-> hidden, display |-> display, hands |-> hands,
   clicks |-> clicks, history |-> history]

\* the handler leaves the state w; no more than MaxTimers callbacks are pending
Commit(w) ==
  /\ Len(w.timers) <= MaxTimers
  /\ stackScenario' = w.stackScenario
  /\ opponentType' = w.opponentType
  /\ playerStartStack' = w.playerStartStack
  /\ opponentStartStack' = w.opponentStartStack
  /\ player' = w.player
  /\ opponent' = w.opponent
  /\ button' = w.button
  /\ deck' = w.deck
  /\ board' = w.board
  /\ pot' = w.pot
  /\ stage' = w.stage
  /\ actionLog' = w.actionLog
  /\ turn' = w.turn
  /\ awaitingUser' = w.awaitingUser
  /\ timers' = w.timers
  /\ hidden' = w.hidden
  /\ display' = w.display
  /\ hands' = w.hands
  /\ clicks' = w.clicks
  /\ history' = w.history
  /\ evaluation' = evaluation

\* Before initGame the fields of gameState do not exist; they are given
\* placeholder values of the type they get later, and stage is "none".
NoPlayer == [cards |-> << >>, stack |-> 0, currentBet |-> 0, folded |-> FALSE]
NoChips == [player |-> 0, opponent |-> 0]
NoAction == [actor |-> "none", action |-> "none"]
NoDecision == [action |-> "none", raiseAmount |-> 0, inputs |-> {}]
NoneActed == [stage |-> "none", who |-> {}]

\* the page as the script leaves it when it has loaded
PageLoaded ==
  /\ stackScenario = "none"
  /\ opponentType = "none"
  /\ playerStartStack = 0
  /\ opponentStartStack = 0
  /\ player = NoPlayer
  /\ opponent = NoPlayer
  /\ button = "none"
  /\ deck = << >>
  /\ board = << >>
  /\ pot = 0
  /\ stage = "none"
  /\ actionLog = << >>
  /\ turn = "none"
  /\ awaitingUser = FALSE
  /\ timers = << >>
  /\ hidden = {"preMatchBlurb", "gameArea", "analysisArea", "endScreen"}
  /\ display = [opponentCards |-> << >>, disabled |-> FALSE, raiseMax |-> 100]
  /\ hands = 0
  /\ clicks = 0
  /\ history = [start |-> NoChips, put |-> NoChips, dealt |-> << >>,
                last |-> NoAction, decision |-> NoDecision, equity |-> << >>,
                shown |-> {}, asked |-> 0, evaluated |-> << >>,
                acted |-> NoneActed]

\* no hands are given to the evaluator outside the match
NoEvaluation ==
  [handA |-> << >>, handB |-> << >>, evalA |-> NoHand, evalB |-> NoHand,
   result |-> 0, compared |-> FALSE]

Init == PageLoaded /\ evaluation = NoEvaluation

(***************************************************************************)
(* The functions of the betting state machine, on the state record         *)
(***************************************************************************)
Min(a, b) == IF a < b THEN a ELSE b
Max(a, b) == IF a > b THEN a ELSE b

\* actionLog.push(entry)
Push(log, entry) == IF Len(log) < MaxLog THEN Append(log, entry) ELSE log

\* setTimeout(callback, 500)
SetTimeout(w, callback) == [w EXCEPT !.timers = Append(@, callback)]

\* bet() without the cap of the amount at the stack
BetUncapped(p, amount) == amount

\* Math.min(amount, playerObj.stack)
BetAmount(p, amount) == Min(amount, p.stack)

\* the amount leaves the stack and is not added to currentBet
StakedUncounted(p, a) == [p EXCEPT !.stack = @ - a]
\* playerObj.stack -= amount; playerObj.currentBet += amount
Staked(p, a) == [p EXCEPT !.stack = @ - a, !.currentBet = @ + a]

\* bet(playerObj, amount)
Bet(w, who, amount) ==
  IF who = "player"
  THEN [w EXCEPT !.player = Staked(@, BetAmount(@, amount)),
                 !.pot = @ + BetAmount(w.player, amount),
                 !.history.put.player = @ + BetAmount(w.player, amount)]
  ELSE [w EXCEPT !.opponent = Staked(@, BetAmount(@, amount)),
                 !.pot = @ + BetAmount(w.opponent, amount),
                 !.history.put.opponent = @ + BetAmount(w.opponent, amount)]

\* postBlinds()
PostBlinds(w) ==
  IF w.button = "player"
  THEN Bet(Bet(w, "player", bigBlind \div 2), "opponent", bigBlind)
  ELSE Bet(Bet(w, "opponent", bigBlind \div 2), "player", bigBlind)

\* updateDisplay(): the opponent's cards as shown (none when card backs are
\* shown), the disabled flag of the action controls, the slider's maximum
UpdateDisplay(w) ==
  [w EXCEPT !.display =
     [opponentCards |-> IF w.stage = "showdown" \/ w.opponent.folded
                        THEN w.opponent.cards ELSE << >>,
      disabled |-> ~w.awaitingUser,
      raiseMax |-> IF w.awaitingUser THEN w.player.stack ELSE @.raiseMax],
            !.history.shown =
     IF w.stage = "showdown" \/ w.opponent.folded
     THEN @ \cup {w.opponent.cards} ELSE @]

\* playerWins, from the value compareHands returned: "null" is the tie
ResultOf(cmp) == IF cmp > 0 THEN "true" ELSE IF cmp < 0 THEN "false" ELSE "null"

\* the winner decided by the cards alone, whoever has folded
PlayerWinsByCards(w) ==
  ResultOf(Compare(w.player.cards, w.opponent.cards, w.board))

\* playerWins of goToShowdown: "true", "false" or "null"
PlayerWins(w) ==
  IF w.player.folded THEN "false"
  ELSE IF w.opponent.folded THEN "true"
  ELSE ResultOf(Compare(w.player.cards, w.opponent.cards, w.board))

\* the award with the tie taken for a loss of the player
AwardTieToOpponent(w, playerWins) ==
  IF playerWins = "true"
    THEN [w EXCEPT !.player.stack = @ + w.pot]
    ELSE [w EXCEPT !.opponent.stack = @ + w.pot]

\* the award of the pot, given the result.  half = pot / 2: the pots split
\* in this model are even.
Award(w, playerWins) ==
  IF playerWins = "true"
    THEN [w EXCEPT !.player.stack = @ + w.pot]
  ELSE IF playerWins = "false"
    THEN [w EXCEPT !.opponent.stack = @ + w.pot]
  ELSE [w EXCEPT !.player.stack = @ + (w.pot \div 2),
                 !.opponent.stack = @ + (w.pot \div 2)]

\* goToShowdown() from the award on (lines 702-721)
Resolve(w, playerWins) ==
  SetTimeout([Award(w, playerWins) EXCEPT !.actionLog =
                Push(@, [stage |-> "showdown", actor |-> "system",
                         result |-> playerWins])],
             "performAnalysis")
\* goToShowdown() after its updateDisplay()
Showdown(w) == Resolve(w, PlayerWins(w))
\* goToShowdown()
GoToShowdown(w) == Showdown(UpdateDisplay([w EXCEPT !.stage = "showdown"]))

\* nextAction()
NextAction(w) ==
  IF w.player.folded \/ w.opponent.folded THEN GoToShowdown(w)
  ELSE IF w.turn = "player"
    THEN UpdateDisplay([w EXCEPT !.awaitingUser = TRUE])
  ELSE SetTimeout(UpdateDisplay([w EXCEPT !.awaitingUser = FALSE]), "aiAction")

\* gameState.deck.deal(): the card is burnt, or pushed to the board
DealOne(w, burn) ==
  [w EXCEPT !.deck = DealRest(@),
            !.history.dealt = Append(@, DealCard(w.deck)),
            !.board = IF burn THEN @ ELSE Append(@, DealCard(w.deck))]
\* n cards to the board
RECURSIVE DealToBoard(_, _)
DealToBoard(w, n) ==
  IF n = 0 THEN w ELSE DealToBoard(DealOne(w, FALSE), n - 1)

\* dealFlop(), dealTurn(), dealRiver()
DealFlop(w) ==
  UpdateDisplay([DealToBoard(DealOne(w, TRUE), 3) EXCEPT !.stage = "flop"])
\* dealTurn() that deals the card and leaves the stage where it is
DealTurnUnstaged(w) == UpdateDisplay(DealToBoard(DealOne(w, TRUE), 1))
DealTurn(w) ==
  UpdateDisplay([DealToBoard(DealOne(w, TRUE), 1) EXCEPT !.stage = "turn"])
DealRiver(w) ==
  UpdateDisplay([DealToBoard(DealOne(w, TRUE), 1) EXCEPT !.stage = "river"])

\* the turn after a closed betting round (advanceOrSwitch line 652, aiAction
\* line 888)
TurnAfterStreet(w) == IF w.button = "player" THEN "player" ELSE "opponent"
ToFirstOfStreet(w) == [w EXCEPT !.turn = TurnAfterStreet(w)]

\* currentBet = 0 for both
ResetBets(w) == [w EXCEPT !.player.currentBet = 0, !.opponent.currentBet = 0]

\* the street transition of advanceOrSwitch: the stage's deal, or goToShowdown
AdvanceStage(w) ==
  IF w.stage = "preflop" THEN DealFlop(w)
  ELSE IF w.stage = "flop" THEN DealTurn(w)
  ELSE IF w.stage = "turn" THEN DealRiver(w)
  ELSE IF w.stage = "river" THEN GoToShowdown(w)
  ELSE w

\* the round closes whether the bets are equal or not
AdvanceUnlevelled(w) == NextAction(ToFirstOfStreet(AdvanceStage(ResetBets(w))))
\* advanceOrSwitch()
AdvanceOrSwitch(w) ==
  IF w.player.currentBet = w.opponent.currentBet
  THEN NextAction(ToFirstOfStreet(AdvanceStage(ResetBets(w))))
  ELSE NextAction([w EXCEPT !.turn = Other(w.turn)])

\* who acts first in a hand (startHand line 468)
FirstToAct(w) == IF w.button = "player" THEN "opponent" ELSE "player"

\* the button left where it is
KeepButton(b) == b

\* the button of the next hand (startHand line 461)
SwapButton(b) == IF b = "player" THEN "opponent" ELSE "player"

\* startHand() up to the swap of the button: the deck is new and shuffled;
\* four calls of deal(), two cards to the player, then two to the opponent
DealHands(w, cards) ==
  [w EXCEPT
     !.hands = @ + 1,
     !.history = [start |-> [player |-> w.player.stack,
                             opponent |-> w.opponent.stack],
                  put |-> NoChips,
                  dealt |-> << DealCard(cards), DealCard(DealRest(cards)),
                               DealCard(DealRest(DealRest(cards))),
                               DealCard(DealRest(DealRest(DealRest(cards)))) >>,
                  last |-> NoAction,
                  decision |-> NoDecision,
                  equity |-> << >>,
                  shown |-> {},
                  asked |-> 0,
                  evaluated |-> << >>,
                  acted |-> NoneActed],
     !.deck = DealRest(DealRest(DealRest(DealRest(cards)))),
     !.board = << >>,
     !.player = [@ EXCEPT !.cards = << DealCard(cards),
                                       DealCard(DealRest(cards)) >>,
                          !.currentBet = 0, !.folded = FALSE],
     !.opponent = [@ EXCEPT
                     !.cards = << DealCard(DealRest(DealRest(cards))),
                                  DealCard(DealRest(DealRest(DealRest(cards)))) >>,
                     !.currentBet = 0, !.folded = FALSE],
     !.pot = 0,
     !.button = SwapButton(@)]

\* startHand() from the assignment of the stage on (lines 465-470)
OpenBetting(w) ==
  NextAction([w EXCEPT !.stage = "preflop", !.actionLog = << >>,
                       !.turn = FirstToAct(w)])

\* startHand(), with d the draw of the shuffle
StartHand(w, d) ==
  OpenBetting(UpdateDisplay(PostBlinds(DealHands(w, Shuffle(NewDeck, d)))))

\* the starting stacks of a scenario (initGame's switch)
StartStacks(scenario) ==
  CASE scenario = "short" -> [player |-> 20 * bigBlind, opponent |-> 20 * bigBlind]
    [] scenario = "equal" -> [player |-> 100 * bigBlind, opponent |-> 100 * bigBlind]
    [] scenario = "big"   -> [player |-> 150 * bigBlind, opponent |-> 50 * bigBlind]
    [] OTHER              -> [player |-> 100 * bigBlind, opponent |-> 100 * bigBlind]

\* initGame() before its call of startHand()
SeatPlayers(w, st) ==
  [w EXCEPT
     !.playerStartStack = st.player,
     !.opponentStartStack = st.opponent,
     !.player = [cards |-> << >>, stack |-> st.player,
                 currentBet |-> 0, folded |-> FALSE],
     !.opponent = [cards |-> << >>, stack |-> st.opponent,
                   currentBet |-> 0, folded |-> FALSE],
     !.button = "player",
     !.clicks = 0]

\* initGame()
InitGame(w, d) == StartHand(SeatPlayers(w, StartStacks(w.stackScenario)), d)

(***************************************************************************)
(* The player's action                                                     *)
(***************************************************************************)
LogEntry(w, who, action, amount) ==
  [stage |-> w.stage, actor |-> who, action |-> action, bet |-> amount,
   pot |-> w.pot, board |-> w.board,
   cards |-> IF who = "player" THEN w.player.cards ELSE w.opponent.cards]

\* the amount the other actor owes, taken for the actor's own
ToCallOfOther(w, who) ==
  IF who = "player" THEN Max(0, w.player.currentBet - w.opponent.currentBet)
  ELSE Max(0, w.opponent.currentBet - w.player.currentBet)
\* other.currentBet - own.currentBet, below 0 when the actor has bet more
ToCallSigned(w, who) ==
  IF who = "player" THEN w.opponent.currentBet - w.player.currentBet
  ELSE w.player.currentBet - w.opponent.currentBet
\* Math.max(0, other.currentBet - own.currentBet)
ToCall(w, who) ==
  IF who = "player" THEN Max(0, w.opponent.currentBet - w.player.currentBet)
  ELSE Max(0, w.player.currentBet - w.opponent.currentBet)

\* the chips are bet and the entry, made before the bet, is pushed to the log
Acted(w, who, action, amount) ==
  [Bet(w, who, amount) EXCEPT
     !.actionLog = Push(@, LogEntry(w, who, action, amount)),
     !.history.last = [actor |-> who, action |-> action],
     !.history.asked = amount,
     !.history.acted = IF @.stage = w.stage
                       THEN [@ EXCEPT !.who = @ \cup {who}]
                       ELSE [stage |-> w.stage, who |-> {who}]]

\* userAction(action, raiseAmount) after gameState.awaitingUser = false
UserActs(w, action, raiseAmount) ==
  IF action = "fold"
    THEN GoToShowdown([Acted(w, "player", "fold", 0)
                         EXCEPT !.player.folded = TRUE])
  ELSE IF action = "check"
    THEN IF ToCall(w, "player") > 0
         THEN AdvanceOrSwitch(Acted(w, "player", "call", ToCall(w, "player")))
         ELSE AdvanceOrSwitch(Acted(w, "player", "check", 0))
  ELSE IF action = "allin"
    THEN NextAction([Acted(w, "player", "allin", w.player.stack)
                       EXCEPT !.turn = "opponent"])
  ELSE IF action = "raise"
    THEN NextAction([Acted(w, "player", "raise",
                           ToCall(w, "player") + raiseAmount)
                       EXCEPT !.turn = "opponent"])
  ELSE w

\* userAction(action, raiseAmount)
UserAction(w, action, raiseAmount) ==
  UserActs([w EXCEPT !.awaitingUser = FALSE], action, raiseAmount)

(***************************************************************************)
(* The opponent's decision and action                                      *)
(***************************************************************************)
\* startingHandStrength(cards), in units of 1/2800.  The sums are exact in
\* double arithmetic at every threshold aiAction compares them with, except
\* the suited queen-three: 12/14*0.5 + 3/14*0.1 + 0.1 is 0.5499999999999999,
\* just below 0.55.
StrengthScale == 2800
StartingHandStrength(cards) ==
  LET r1 == RankValue(cards[1])
      r2 == RankValue(cards[2])
      suited == SuitOf(cards[1]) = SuitOf(cards[2])
      highCard == Max(r1, r2)
      lowCard == Min(r1, r2)
      diff == highCard - lowCard
      score == highCard * 100 + lowCard * 20
                 + (IF suited THEN 280 ELSE 0)
                 + (IF diff = 1 THEN 280 ELSE IF diff = 2 THEN 140 ELSE 0)
      roundedDown == IF suited /\ highCard = 12 /\ lowCard = 3 THEN 1 ELSE 0
  IN IF r1 = r2 THEN r1 * 160 + 560
     ELSE Min(score - roundedDown, StrengthScale)

\* computeEquity returns (wins + ties / 2) / runs with runs = 150: an equity
\* e stands for e/300.  The wins and ties counted depend on the random
\* completions, so the result is an input.
EquityScale == 300
EquityValues == {0, 80, 100, 150, 200, 300}
\* the values of Math.random() an opponent's decision may draw: d stands for d/100
RandomDraws == {0, 99}

\* equity > num/den
EquityAbove(equity, num, den) == equity * den > num * EquityScale
\* equity > potOdds: the call is priced by the pot odds alone
EquityAboveOddsAlone(equity, callCost, potAfterCall, num, den) ==
  equity * potAfterCall > EquityScale * callCost

\* equity > potOdds + num/den, with potOdds = callCost / (pot + callCost)
EquityAboveOdds(equity, callCost, potAfterCall, num, den) ==
  equity * den * potAfterCall
    > EquityScale * (callCost * den + num * potAfterCall)

\* strength >= pct/100
StrengthAtLeast(strength, pct) == strength * 100 >= pct * StrengthScale

\* The decision part of aiAction (lines 728-849): the action and raiseAmount
\* chosen, given the equity computed and the first and second value that
\* Math.random() returns during the decision.
AiDecide(w, equity, rnd1, rnd2) ==
  LET opp == w.opponent
      hero == w.player
      toCall == ToCall(w, "opponent")
      potAfterCall == w.pot + toCall
      style == w.opponentType
      strength == StartingHandStrength(opp.cards)
      check == [action |-> "check", raiseAmount |-> 0]
      fold == [action |-> "fold", raiseAmount |-> 0]
      allin == [action |-> "allin", raiseAmount |-> 0]
      raise(amount) == [action |-> "raise", raiseAmount |-> amount]
      open(pct, chance, amount) ==
        IF StrengthAtLeast(strength, pct) /\ rnd1 < chance THEN raise(amount)
        ELSE check
  IN
  IF w.stage = "preflop" THEN
    IF toCall = 0 THEN
      IF style = "tamayo"
        THEN open(40, 70, bigBlind * (2 + ((rnd2 * 2) \div 100)))
      ELSE IF style = "weinman" THEN open(50, 50, bigBlind * 2)
      ELSE IF style = "jorstad" THEN open(60, 60, bigBlind * 3)
      ELSE IF style = "aldemir" THEN open(55, 70, bigBlind * 3)
      ELSE IF style = "salas" THEN
        IF opp.stack < 10 * bigBlind
        THEN IF EquityAbove(equity, 48, 100) THEN allin ELSE check
        ELSE open(55, 60, bigBlind * 3)
      ELSE check
    ELSE
      IF style = "salas" /\ opp.stack < 10 * bigBlind
      THEN IF EquityAboveOdds(equity, toCall, potAfterCall, 1, 10)
           THEN allin ELSE fold
      ELSE IF EquityAboveOdds(equity, toCall, potAfterCall, 1, 10)
           THEN IF style = "tamayo" /\ rnd1 < 20
                THEN raise((hero.currentBet - opp.currentBet) + bigBlind * 2)
                ELSE check
           ELSE fold
  ELSE
    IF toCall > 0 THEN
      IF EquityAboveOdds(equity, toCall, potAfterCall, 1, 20) THEN check
      ELSE IF style = "tamayo" /\ EquityAbove(equity, 25, 100) /\ rnd1 < 30
        THEN raise((hero.currentBet - opp.currentBet)
                     + ((bigBlind * 2 * rnd2) \div 100))
      ELSE fold
    ELSE
      IF EquityAbove(equity, 6, 10)
        THEN raise((bigBlind * (100 + rnd1)) \div 100)
      ELSE IF EquityAbove(equity, 3, 10) /\ rnd1 < 40
        THEN raise((bigBlind * (100 + rnd2)) \div 100)
      ELSE check

\* the execution part of aiAction up to the push of the log entry (lines
\* 851-871)
AiActs(w, action, raiseAmount) ==
  IF action = "fold"
    THEN [Acted(w, "opponent", "fold", 0) EXCEPT !.opponent.folded = TRUE]
  ELSE IF action = "check"
    THEN IF ToCall(w, "opponent") > 0
         THEN Acted(w, "opponent", "call", ToCall(w, "opponent"))
         ELSE Acted(w, "opponent", "check", 0)
  ELSE IF action = "allin"
    THEN Acted(w, "opponent", "allin", w.opponent.stack)
  ELSE Acted(w, "opponent", "raise", ToCall(w, "opponent") + raiseAmount)

\* aiAction after the push of the log entry (lines 872-895)
AiProceeds(w, action) ==
  IF action = "fold" THEN GoToShowdown(w)
  ELSE IF w.player.currentBet = w.opponent.currentBet
    THEN IF w.stage = "river" THEN GoToShowdown(ResetBets(w))
         ELSE NextAction(ToFirstOfStreet(AdvanceStage(ResetBets(w))))
  ELSE NextAction([w EXCEPT !.turn = "player"])

\* the execution part of aiAction (lines 851-895)
AiExecute(w, action, raiseAmount) ==
  AiProceeds(AiActs(w, action, raiseAmount), action)

(***************************************************************************)
(* computeEquity                                                           *)
(***************************************************************************)
\* the trials of one call of computeEquity that are followed (runs is 150 in
\* aiAction, 100 in performAnalysis)
EquityRuns == 2

\* the values of Math.random() that the shuffles of a call of computeEquity
\* draw: d stands for d/100
TrialDraws == {50}

\* deck.cards.filter(c => !playerCards.includes(c) && !knownBoard.includes(c))
Remaining(playerCards, knownBoard, deckCards) ==
  SelectSeq(deckCards,
            LAMBDA c : ~Includes(playerCards, c) /\ ~Includes(knownBoard, c))

\* `available` is another name of the array `remaining`
AvailableAliased == "remaining"

\* const available = remaining.slice(): `available` names an array of its own
Available == "available"

\* The arrays computeEquity reads and writes, by name: its three arguments
\* (deck is deck.cards, the live array), remaining, and the arrays of the
\* trial.  starts collects what remaining held when a trial began.
EquityArrays(playerCards, knownBoard, deckCards) ==
  [playerCards |-> playerCards, knownBoard |-> knownBoard, deck |-> deckCards,
   remaining |-> Remaining(playerCards, knownBoard, deckCards),
   available |-> << >>, oppCards |-> << >>, board |-> << >>, starts |-> {}]

\* the trial's arrays once available is shuffled: oppCards takes the first
\* two cards, board is knownBoard.slice() filled up to five with the next
Sampled(arrays) ==
  [arrays EXCEPT
     !.oppCards = SubSeq(arrays[Available], 1, 2),
     !.board = @ \o SubSeq(arrays[Available], 3, 7 - Len(@))]

\* one trial (lines 294-304), d the draw of shuffleArray
EquityTrial(arrays, d) ==
  Sampled([arrays EXCEPT ![Available] = Shuffle(arrays.remaining, d),
                         !.board = arrays.knownBoard,
                         !.starts = @ \cup {arrays.remaining}])

RECURSIVE EquityTrials(_, _, _)
EquityTrials(arrays, d, runs) ==
  IF runs = 0 THEN arrays
  ELSE EquityTrials(EquityTrial(arrays, d), d, runs - 1)

\* what is kept of a call of computeEquity: its arguments, the pool it built,
\* whether the arrays passed to it are as they were, and whether every trial
\* began with the pool as built
EquityCall(before, after) ==
  [hero |-> before.playerCards, known |-> before.knownBoard,
   pool |-> before.remaining,
   undisturbed |-> /\ after.playerCards = before.playerCards
                   /\ after.knownBoard = before.knownBoard
                   /\ after.deck = before.deck,
   samePool |-> after.starts = {before.remaining}]

\* the state after computeEquity has run on arrays `before` and left `after`:
\* deck.cards is the array computeEquity was given
Computed(w, before, after) ==
  [w EXCEPT !.deck = after.deck,
            !.history.equity = Append(@, EquityCall(before, after))]

\* the state after the trials of computeEquity on the arrays
Tried(w, arrays, d) == Computed(w, arrays, EquityTrials(arrays, d, EquityRuns))

\* computeEquity(playerCards, knownBoard, gameState.deck, runs).  The value it
\* returns, (wins + ties / 2) / runs, depends on the random completions of
\* all its trials: it is an input of the caller (EquityValues).
ComputeEquity(w, playerCards, knownBoard, d) ==
  Tried(w, EquityArrays(playerCards, knownBoard, w.deck), d)

\* aiAction's call: computeEquity(opp.cards, gameState.board.slice(), ...)
AiEquity(w, d) == ComputeEquity(w, w.opponent.cards, w.board, d)

\* The hands performAnalysis can look up after a shuffle of ShuffleDraws: the
\* player's cards with the board of each street.  evaluateHand is computed
\* once for each of them.
ReportHands ==
  {DealtHand(d)[1] \o SubSeq(DealtHand(d)[3], 1, n) :
     d \in ShuffleDraws, n \in {0, 3, 4, 5}}
ReportTable == [h \in ReportHands |-> EvaluateHand(h)]
\* evaluateHand(cards), looked up where it is tabulated
Looked(table, cards) ==
  IF cards \in DOMAIN table THEN table[cards] ELSE EvaluateHand(cards)
\* const evalRes = evaluateHand(entry.cards.concat(entry.board))
Reported(w, entry) ==
  [w EXCEPT !.history.evaluated =
     Append(@, [cards |-> Len(entry.cards \o entry.board),
                action |-> entry.action,
                category |->
                  Looked(ReportTable, entry.cards \o entry.board).category])]

\* performAnalysis's loop from entry i on: for each entry of the player a call
\* of computeEquity and a call of evaluateHand
RECURSIVE AnalysisEquity(_, _, _)
AnalysisEquity(w, d, i) ==
  IF i > Len(w.actionLog) THEN w
  ELSE IF w.actionLog[i].actor = "player"
    THEN AnalysisEquity(Reported(ComputeEquity(w, w.actionLog[i].cards,
                                               w.actionLog[i].board, d),
                                 w.actionLog[i]), d, i + 1)
  ELSE AnalysisEquity(w, d, i + 1)

\* the state when a handler that computes equities begins
NoEquity(w) == [w EXCEPT !.history.equity = << >>]
\* the state when performAnalysis begins
NoReport(w) == [NoEquity(w) EXCEPT !.history.evaluated = << >>]

(***************************************************************************)
(* The handlers: button clicks and timer callbacks                         *)
(***************************************************************************)
Visible(section) == section \notin hidden

\* the raise amounts the player sets the slider to (whole chips, at most the
\* slider's maximum)
SliderValues == {0, 1870}

\* the value of a select element when Start is clicked: any of its options
\* before the first match; for a rematch the player leaves the select at the
\* value it has
Selected(chosen, options) == IF chosen = "none" THEN options ELSE {chosen}

\* startBtn click
StartBtn ==
  /\ Visible("setup")
  /\ \E scenario \in Selected(stackScenario, Scenarios),
        style \in Selected(opponentType, Styles) :
       Commit([World EXCEPT !.stackScenario = scenario,
                            !.opponentType = style,
                            !.hidden = (@ \cup {"setup"}) \ {"preMatchBlurb"}])

\* continueBtn click
ContinueBtn ==
  /\ Visible("preMatchBlurb")
  /\ hands < MaxHands
  /\ \E d \in ShuffleDraws :
       Commit(InitGame([World EXCEPT
                          !.hidden = (@ \cup {"preMatchBlurb"}) \ {"gameArea"}],
                       d))

\* showEnd()
ShowEnd(w) ==
  [w EXCEPT !.hidden = (@ \cup {"gameArea", "analysisArea"}) \ {"endScreen"}]

\* a match that is never over
MatchOverNever(p, o) == FALSE

\* gameState.player.stack <= 0 || gameState.opponent.stack <= 0
MatchOver(p, o) == p.stack <= 0 \/ o.stack <= 0

\* nextHandBtn click
NextHandBtn ==
  /\ Visible("analysisArea")
  /\ IF MatchOver(player, opponent)
     THEN Commit(ShowEnd([World EXCEPT !.hidden = @ \cup {"analysisArea"}]))
     ELSE /\ hands < MaxHands
          /\ \E d \in ShuffleDraws :
               Commit(StartHand([World EXCEPT
                                   !.hidden = @ \cup {"analysisArea"}], d))

\* restartBtn click
RestartBtn ==
  /\ Visible("endScreen")
  /\ Commit([World EXCEPT !.hidden = (@ \cup {"endScreen"}) \ {"setup"}])

\* a click on one of the action controls reaches its handler
ControlsUsable ==
  Visible("gameArea") /\ ~display.disabled /\ clicks < MaxClicks

\* the click handlers of the action controls: userAction if awaitingUser
Clicked(action, raiseAmount) ==
  IF awaitingUser
  THEN UserAction([World EXCEPT !.clicks = @ + 1], action, raiseAmount)
  ELSE [World EXCEPT !.clicks = @ + 1]

\* foldBtn click
FoldBtn == ControlsUsable /\ Commit(Clicked("fold", 0))
\* checkBtn click
CheckBtn == ControlsUsable /\ Commit(Clicked("check", 0))
\* allInBtn click
AllInBtn == ControlsUsable /\ Commit(Clicked("allin", 0))
\* confirmRaiseBtn click, with the slider at amount
ConfirmRaiseBtn ==
  /\ ControlsUsable
  /\ \E amount \in SliderValues :
       /\ amount <= display.raiseMax
       /\ Commit(Clicked("raise", amount))

\* the decisions aiAction can come to in state w, over the inputs
AiDecisions(w) ==
  {AiDecide(w, equity, rnd1, rnd2) :
     equity \in EquityValues, rnd1 \in RandomDraws, rnd2 \in RandomDraws}

\* the values of equity and of Math.random() that a decision may be made on
AiInputs == [equity : EquityValues, rnd1 : RandomDraws, rnd2 : RandomDraws]

\* the inputs on which aiAction comes to decision d in state w
InputsOf(w, d) ==
  {i \in AiInputs : AiDecide(w, i.equity, i.rnd1, i.rnd2) = d}

\* the state in which decision d is executed
Decided(w, d) ==
  [w EXCEPT !.history.decision =
     [action |-> d.action, raiseAmount |-> d.raiseAmount,
      inputs |-> InputsOf(w, d)]]

\* aiAction() from the pot odds on (lines 735-895)
AiDecided(w) ==
  {AiExecute(Decided(w, d), d.action, d.raiseAmount) : d \in AiDecisions(w)}

\* aiAction(), run in state w, with d the draw of computeEquity's shuffles
AiAction(w, d) == AiDecided(AiEquity(NoEquity(w), d))

\* the callback of setTimeout(() => aiAction(), 500) runs
AiActionTimer ==
  /\ timers # << >>
  /\ Head(timers) = "aiAction"
  /\ \E d \in TrialDraws :
       \E w \in AiAction([World EXCEPT !.timers = Tail(@)], d) : Commit(w)

\* performAnalysis(): the equity of each entry of the player is computed, the
\* analysis panel is shown
PerformAnalysis(w, d) ==
  [AnalysisEquity(NoReport(w), d, 1) EXCEPT !.hidden = @ \ {"analysisArea"}]

\* the callback of setTimeout(() => performAnalysis(), 500) runs
PerformAnalysisTimer ==
  /\ timers # << >>
  /\ Head(timers) = "performAnalysis"
  /\ \E d \in TrialDraws :
       Commit(PerformAnalysis([World EXCEPT !.timers = Tail(@)], d))

Next ==
  \/ StartBtn
  \/ ContinueBtn
  \/ NextHandBtn
  \/ RestartBtn
  \/ FoldBtn
  \/ CheckBtn
  \/ AllInBtn
  \/ ConfirmRaiseBtn
  \/ AiActionTimer
  \/ PerformAnalysisTimer

Spec == Init /\ [][Next]_vars


(***************************************************************************)
(* Steps of the handlers, as the properties below refer to them            *)
(***************************************************************************)
Seat(who) == IF who = "player" THEN player ELSE opponent

\* the step is a run of aiAction: the oldest pending callback is aiAction and
\* the step is no click on a button
AiStep ==
  /\ timers # << >>
  /\ Head(timers) = "aiAction"
  /\ clicks' = clicks
  /\ hands' = hands
  /\ hidden' = hidden
\* the step is a run of userAction
UserStep == clicks' = clicks + 1 /\ awaitingUser
\* the step is an action of actor who
ActionStep(who) == IF who = "player" THEN UserStep ELSE AiStep

\* the step is a run of startHand; from continueBtn, through initGame
HandStarts == hands' = hands + 1
ContinueStep == HandStarts /\ Visible("preMatchBlurb") /\ ~Visible("preMatchBlurb")'
NextHandStep == HandStarts /\ ~ContinueStep

\* the chips actor who bets in the step (no hand starts in it)
BetInStep(who) == history.put'[who] - history.put[who]

BettingStages == {"preflop", "flop", "turn", "river"}
NextStreet(s) ==
  CASE s = "preflop" -> "flop"
    [] s = "flop" -> "turn"
    [] s = "turn" -> "river"
    [] s = "river" -> "showdown"
    [] OTHER -> "none"

(***************************************************************************)
(* C1                                                                      *)
(***************************************************************************)
\* C1: in every state from initGame on, pot + player.stack + opponent.stack
\* equals the sum of the two starting stacks of the match, the states at and
\* after showdown included.
C1_ChipConservation ==
  stage # "none" =>
    pot + player.stack + opponent.stack = playerStartStack + opponentStartStack

(***************************************************************************)
(* C2                                                                      *)
(***************************************************************************)
\* C2: userAction runs only when turn is the player and the stage is not
\* showdown, aiAction only when turn is the opponent and the stage is not
\* showdown.
C2_ActionsInTurn ==
  [][/\ UserStep => turn = "player" /\ stage # "showdown"
     /\ AiStep => turn = "opponent" /\ stage # "showdown"]_vars

(***************************************************************************)
(* C3                                                                      *)
(***************************************************************************)
\* The betting round cannot be closed by a call: the actor who has bet less
\* in the round has no chips left to bet.
Stalled ==
  /\ stage \in BettingStages
  /\ ~player.folded /\ ~opponent.folded
  /\ \/ player.currentBet < opponent.currentBet /\ player.stack = 0
     \/ opponent.currentBet < player.currentBet /\ opponent.stack = 0

\* C3: there is no reachable state from which the two actors can exchange
\* check/call actions forever without the stage advancing: no state of a hand
\* is stalled.
C3_NoEndlessExchange == ~Stalled

\* C3, the exchange: a check or call made in a stalled state leaves the hand
\* stalled, on the same street with the same pot, and passes the turn to the
\* other actor.
C3_StalledStays ==
  [][\A who \in Seats :
       (Stalled /\ ActionStep(who) /\ history.last'.action \in {"check", "call"})
         => Stalled' /\ stage' = stage /\ pot' = pot /\ turn' = Other(who)]_vars

(***************************************************************************)
(* C4                                                                      *)
(***************************************************************************)
\* the currentBets are equal once the action's chips are bet
EqualAfterBet ==
  player.currentBet + BetInStep("player")
    = opponent.currentBet + BetInStep("opponent")

\* C4: after a non-fold action of either actor, if the currentBets are equal
\* both are reset to 0 and the stage advances by one street; otherwise the
\* turn passes to the other actor and the stage stays.
C4_CloseOrSwitch ==
  [][\A who \in Seats :
       (ActionStep(who) /\ history.last'.action # "fold") =>
         IF EqualAfterBet
         THEN /\ player.currentBet' = 0
              /\ opponent.currentBet' = 0
              /\ stage' = NextStreet(stage)
         ELSE /\ turn' = Other(who)
              /\ stage' = stage]_vars

(***************************************************************************)
(* C5                                                                      *)
(***************************************************************************)
\* C5: when a betting round is closed and the stage advances to flop, turn or
\* river, turn is set to the non-button player.
C5_NonButtonFirst ==
  [][(stage' \in {"flop", "turn", "river"} /\ stage' # stage)
       => turn' = Other(button')]_vars

(***************************************************************************)
(* C6                                                                      *)
(***************************************************************************)
\* the step enters showdown from a betting round
EntersShowdown == stage \in BettingStages /\ stage' = "showdown" /\ hands' = hands
\* the stack of who when goToShowdown is entered: the action's chips are bet
StackAtShowdown(who) == Seat(who).stack - BetInStep(who)
\* the pot when goToShowdown is entered
PotAtShowdown == pot + BetInStep("player") + BetInStep("opponent")
\* who gets `gain` and the other nothing in the step
Gains(who, gain) ==
  /\ Seat(who)'.stack = StackAtShowdown(who) + gain
  /\ Seat(Other(who))'.stack = StackAtShowdown(Other(who))

\* C6: on entering showdown, if one player has folded the other player's
\* stack increases by the pot; otherwise the winner of compareHands over the
\* 5-card board receives the pot, and on a tie each stack increases by pot/2;
\* the loser's stack is unchanged.
C6_ShowdownResolution ==
  [][EntersShowdown =>
       IF player.folded' THEN Gains("opponent", PotAtShowdown)
       ELSE IF opponent.folded' THEN Gains("player", PotAtShowdown)
       ELSE /\ Len(board') = 5
            /\ Compare(player.cards, opponent.cards, board') > 0
                 => Gains("player", PotAtShowdown)
            /\ Compare(player.cards, opponent.cards, board') < 0
                 => Gains("opponent", PotAtShowdown)
            /\ Compare(player.cards, opponent.cards, board') = 0
                 => /\ 2 * (PotAtShowdown \div 2) = PotAtShowdown
                    /\ player.stack' = StackAtShowdown("player") + PotAtShowdown \div 2
                    /\ opponent.stack'
                         = StackAtShowdown("opponent") + PotAtShowdown \div 2]_vars

\* a showdown decided by a tie of the hands: both have their chips back
C6_Witness ==
  /\ stage = "showdown"
  /\ ~player.folded /\ ~opponent.folded
  /\ Len(board) = 5
  /\ Compare(player.cards, opponent.cards, board) = 0
  /\ pot > 0
  /\ player.stack = history.start.player
  /\ opponent.stack = history.start.opponent

(***************************************************************************)
(* C7                                                                      *)
(***************************************************************************)
\* the stack of who when startHand is entered
StackAtStart(who) ==
  IF ContinueStep THEN StartStacks(stackScenario)[who] ELSE Seat(who).stack
\* what who posts in startHand
Posted(who) ==
  IF who = button' THEN Min(bigBlind \div 2, StackAtStart(who))
  ELSE Min(bigBlind, StackAtStart(who))

FoldEnds(who) ==
  /\ hands' = hands
  /\ stage \in BettingStages
  /\ stage' = "showdown"
  /\ ~Seat(who).folded
  /\ Seat(who)'.folded

\* C8: when a hand ends by a fold, the folder's stack is its hand-start stack
\* minus the chips it committed during the hand and the other's stack is its
\* hand-start stack plus that amount; on the button with both stacks at least
\* bigBlind, a preflop fold by the player who has committed only the small
\* blind leaves player.stack = start - 50 and the opponent's stack 150 above
\* its post-blind value.
C8_FoldAccounting ==
  [][\A who \in Seats :
       FoldEnds(who) =>
         /\ Seat(who)'.stack = history.start[who] - history.put'[who]
         /\ Seat(Other(who))'.stack
              = history.start[Other(who)] + history.put'[who]
         /\ (/\ who = "player"
             /\ button = "player"
             /\ stage = "preflop"
             /\ history.start.player >= bigBlind
             /\ history.start.opponent >= bigBlind
             /\ history.put.player = bigBlind \div 2)
              => /\ player.stack' = history.start.player - 50
                 /\ opponent.stack'
                      = (history.start.opponent - bigBlind) + 150]_vars

\* the player, on the button, has folded preflop with the small blind in the pot
C8_Witness ==
  /\ stage = "showdown"
  /\ button = "player"
  /\ player.folded
  /\ board = << >>
  /\ history.put.player = bigBlind \div 2
  /\ history.start.player >= bigBlind
  /\ history.start.opponent >= bigBlind
  /\ player.stack = history.start.player - 50

(***************************************************************************)
(* C9                                                                      *)
(***************************************************************************)
\* C9: from one hand to the next the button passes to the other actor, and
\* both stacks carry over unchanged from the end of the hand to the start of
\* the next, before the blinds.
C9_ButtonAlternates ==
  [][NextHandStep =>
       /\ button' = Other(button)
       /\ \A who \in Seats :
            Seat(who)'.stack + Seat(who)'.currentBet = Seat(who).stack]_vars

\* a second hand has started, with stacks that the first hand changed
C9_Witness ==
  /\ hands = 2
  /\ stage = "preflop"
  /\ history.last = NoAction
  /\ button = "player"
  /\ history.start.player # playerStartStack
  /\ player.stack + player.currentBet = history.start.player

(***************************************************************************)
(* C10                                                                     *)
(***************************************************************************)
NoDuplicates(s) == \A i, j \in 1 .. Len(s) : i # j => s[i] # s[j]
\* the places of the board cards among the cards dealt in a hand: the fifth,
\* the ninth and the eleventh are burnt
BoardPlaces == << 6, 7, 8, 10, 12 >>

\* C10: within one hand no card is dealt twice: the hole cards, the burn
\* cards and the board cards are pairwise distinct cards of the 52-card deck,
\* at most 12 cards are dealt, and deal() is never called on an empty deck.
C10_NoCardTwice ==
  stage # "none" =>
    /\ NoDuplicates(history.dealt \o deck)
    /\ Len(history.dealt) + Len(deck) = DeckSize
    /\ \A i \in 1 .. Len(history.dealt) : history.dealt[i] \in Cards
    /\ Len(history.dealt) <= 12
    /\ player.cards = << history.dealt[1], history.dealt[2] >>
    /\ opponent.cards = << history.dealt[3], history.dealt[4] >>
    /\ Len(board) <= 5
    /\ \A k \in 1 .. Len(board) : board[k] = history.dealt[BoardPlaces[k]]

\* a hand at the river: twelve cards are dealt
C10_Witness ==
  /\ stage = "river"
  /\ Len(history.dealt) = 12
  /\ Len(board) = 5
  /\ Len(deck) = DeckSize - 12

(***************************************************************************)
(* C11                                                                     *)
(***************************************************************************)
\* the number of board cards of a betting stage
BoardOfStage(s) ==
  CASE s = "preflop" -> 0
    [] s = "flop" -> 3
    [] s = "turn" -> 4
    [] s = "river" -> 5
    [] OTHER -> 0

\* C11: in every state the board has 0 cards in preflop, 3 in flop, 4 in turn
\* and 5 in river; within a hand every change of the stage is a move to the
\* next street, made by an action that has left the currentBets equal, or a
\* move to showdown in which a player is folded.
C11_StageAndBoard ==
  /\ [](stage \in BettingStages => Len(board) = BoardOfStage(stage))
  /\ [][(hands' = hands /\ stage' # stage) =>
          \/ /\ stage' = NextStreet(stage)
             /\ EqualAfterBet
             /\ history.last'.action # "fold"
          \/ /\ stage' = "showdown"
             /\ player.folded' \/ opponent.folded']_vars

\* the opponent has folded on the flop: the hand went from flop to showdown
C11_Witness ==
  /\ stage = "showdown"
  /\ Len(board) = 3
  /\ opponent.folded
  /\ history.last = [actor |-> "opponent", action |-> "fold"]

(***************************************************************************)
(* C12                                                                     *)
(***************************************************************************)
\* the cards of an array
CardSet(cards) == {cards[k] : k \in 1 .. Len(cards)}

\* C12: for every call of computeEquity made during play, by aiAction and by
\* performAnalysis, the pool that the opponent hand and the board completion
\* are sampled from is the 52 cards without heroCards and knownBoard.
C12_EquityPool ==
  \A k \in 1 .. Len(history.equity) :
    CardSet(history.equity[k].pool)
      = (Cards \ CardSet(history.equity[k].hero))
          \ CardSet(history.equity[k].known)

(***************************************************************************)
(* C13                                                                     *)
(***************************************************************************)
\* the step is a run of performAnalysis
AnalysisStep ==
  /\ timers # << >>
  /\ Head(timers) = "performAnalysis"
  /\ timers' = Tail(timers)

\* C13: a call of computeEquity leaves the arrays passed to it (the live deck
\* in content and order, the hole cards, the board) as they were, and each of
\* its trials starts from the pool as first built.  A run of performAnalysis
\* changes neither deck, board, hole cards, stacks, pot nor turn; a run of
\* aiAction leaves the cards in the deck in their order, those it deals apart.
C13_EquityNoEffect ==
  /\ [](\A k \in 1 .. Len(history.equity) :
          history.equity[k].undisturbed /\ history.equity[k].samePool)
  /\ [][AnalysisStep => UNCHANGED << deck, board, player, opponent, pot,
                                     turn, stage >>]_vars
  /\ [][AiStep => /\ Len(history.equity') = 1
                  /\ Len(deck') <= Len(deck)
                  /\ deck' = SubSeq(deck, 1, Len(deck'))
                  /\ player.cards' = player.cards
                  /\ opponent.cards' = opponent.cards]_vars

\* performAnalysis has computed the equity of two decisions of the player
C13_Witness ==
  /\ Visible("analysisArea")
  /\ timers = << >>
  /\ Len(history.equity) = 2
  /\ history.equity[1].hero = player.cards
  /\ history.equity[2].hero = player.cards
  /\ history.equity[2].pool = deck
  /\ Len(deck) = DeckSize - 4

(***************************************************************************)
(* C14                                                                     *)
(***************************************************************************)
\* C14: updateDisplay puts the opponent's hole cards face up only if the
\* opponent has folded or the stage is showdown: as long as the hand has
\* reached neither a fold of the opponent nor its showdown, no display update
\* since startHand was entered has shown the cards dealt to the opponent.
C14_OpponentCardsHidden ==
  (stage \in BettingStages /\ ~opponent.folded)
    => opponent.cards \notin history.shown

(***************************************************************************)
(* C15                                                                     *)
(***************************************************************************)
\* the step is a click on nextHandBtn: the analysis panel is hidden by it
NextHandClick == Visible("analysisArea") /\ ~Visible("analysisArea")'

\* C15: a click on Next Hand with player.stack <= 0 or opponent.stack <= 0
\* shows the end screen, hides the game and starts no hand; and startHand is
\* never entered with a stack that is 0 or less.
C15_MatchEnds ==
  [][/\ (NextHandClick /\ (player.stack <= 0 \/ opponent.stack <= 0))
          => /\ Visible("endScreen")'
             /\ ~Visible("gameArea")'
             /\ hands' = hands
             /\ UNCHANGED << player, opponent, deck, board, pot, stage, turn,
                             timers >>
     /\ HandStarts => /\ StackAtStart("player") > 0
                      /\ StackAtStart("opponent") > 0]_vars

\* the end screen is shown after a hand that left the player without chips
C15_Witness ==
  /\ Visible("endScreen")
  /\ ~Visible("gameArea")
  /\ hands = 1
  /\ stage = "showdown"
  /\ player.stack = 0
  /\ opponent.stack > 0

(***************************************************************************)
(* C16                                                                     *)
(***************************************************************************)
\* no entry was dropped from the log kept of the step's state
LogKept == Len(actionLog') < MaxLog
\* the entry that the action of the step appends
NewEntry == actionLog'[Len(actionLog) + 1]

\* the action of actor who, made in a betting round, appends one entry after
\* the entries already there, and the showdown it leads to appends the result
OneEntryAdded(who) ==
  /\ Len(actionLog') = Len(actionLog) + (IF stage' = "showdown" THEN 2 ELSE 1)
  /\ SubSeq(actionLog', 1, Len(actionLog)) = actionLog
  /\ NewEntry.actor = who
  /\ NewEntry.action = history.last'.action
  /\ stage' = "showdown"
       => /\ actionLog'[Len(actionLog')].actor = "system"
          /\ actionLog'[Len(actionLog')].stage = "showdown"

\* the entry records the stage, the board and the actor's hole cards as they
\* are when the action is made
EntryOfTheTime(who) ==
  /\ NewEntry.stage = stage
  /\ NewEntry.board = board
  /\ NewEntry.cards = Seat(who).cards

\* C16: every action applied in a betting round appends exactly one entry to
\* actionLog, after the earlier ones, and the showdown result appends one; the
\* bet recorded in the action's entry is the number of chips the action moved
\* from the actor's stack into the pot; the stage, board and hole cards
\* recorded are those at the time of the action.
C16_LogFaithful ==
  [][\A who \in Seats :
       (ActionStep(who) /\ stage \in BettingStages /\ LogKept) =>
         /\ OneEntryAdded(who)
         /\ EntryOfTheTime(who)
         /\ NewEntry.bet = BetInStep(who)]_vars

\* C16, what the entries do record: one entry for each action, of the time of
\* the action, and a bet that is never less than the chips moved.
C16_EntryRecorded ==
  [][\A who \in Seats :
       (ActionStep(who) /\ stage \in BettingStages /\ LogKept) =>
         /\ OneEntryAdded(who)
         /\ EntryOfTheTime(who)
         /\ NewEntry.bet >= BetInStep(who)
         /\ NewEntry.pot = pot]_vars

(***************************************************************************)
(* C17                                                                     *)
(***************************************************************************)
\* C17: player.folded and opponent.folded are never both true.
C17_NotBothFolded == ~(player.folded /\ opponent.folded)

(***************************************************************************)
(* C18                                                                     *)
(***************************************************************************)
\* the opponent is the Short-Stack Gladiator with less than 10 big blinds
PushFold == opponentType = "salas" /\ opponent.stack < 10 * bigBlind

\* what the opponent owes when aiAction runs
Owed == ToCall(World, "opponent")

\* equity e, in units of 1/EquityScale, is above potOdds + num/den, with
\* potOdds = Owed / (pot + Owed)
AbovePotOdds(e, num, den) ==
  e * den * (pot + Owed) > EquityScale * (Owed * den + num * (pot + Owed))

\* the push-fold rule for the inputs i of a decision
PushOrFold(i, action) ==
  IF Owed = 0
  THEN action = (IF i.equity * 100 > 48 * EquityScale THEN "allin" ELSE "check")
  ELSE action = (IF AbovePotOdds(i.equity, 1, 10) THEN "allin" ELSE "fold")

\* C18: whenever the opponent is the Short-Stack Gladiator with a stack below
\* 10 big blinds, on every street its action is all-in or check when no bet
\* is owed (all-in iff equity > 0.48) and all-in or fold when a bet is owed
\* (all-in iff equity > potOdds + 0.1): never a sized raise or a plain call.
C18_PushFold ==
  [][(AiStep /\ PushFold /\ stage \in BettingStages) =>
       \A i \in history.decision'.inputs :
         PushOrFold(i, history.decision'.action)]_vars

\* C18, preflop: the rule as the code applies it.
C18_PushFoldPreflop ==
  [][(AiStep /\ PushFold /\ stage = "preflop") =>
       /\ history.decision'.inputs # {}
       /\ \A i \in history.decision'.inputs :
            PushOrFold(i, history.decision'.action)]_vars

(***************************************************************************)
(* C19                                                                     *)
(***************************************************************************)
\* the opponent is the Aggressive Caller
AggressiveCaller == opponentType = "tamayo"

\* the rule for an opponent that owes a bet, for the inputs i of a decision:
\* `check` is the decision that is executed as a call
FacingBet(i, action) ==
  IF stage = "preflop"
  THEN IF AbovePotOdds(i.equity, 1, 10)
       THEN action = "check" \/ (AggressiveCaller /\ action = "raise")
       ELSE action = "fold"
  ELSE IF AbovePotOdds(i.equity, 1, 20)
       THEN action = "check"
       ELSE \/ action = "fold"
            \/ /\ AggressiveCaller
               /\ action = "raise"
               /\ i.equity * 100 > 25 * EquityScale

\* C19: an opponent that owes a bet (toCall > 0), with potOdds = toCall /
\* (pot + toCall): preflop, outside the Gladiator's push-fold mode, it calls
\* only if equity > potOdds + 0.1 (the Aggressive Caller may reraise instead)
\* and folds otherwise; postflop it calls if equity > potOdds + 0.05 and folds
\* otherwise, except for the Aggressive Caller's bluff-raise, which requires
\* equity > 0.25.  The call bets what is owed, as far as the stack goes.
C19_FacingBet ==
  [][(AiStep /\ Owed > 0 /\ ~(stage = "preflop" /\ PushFold)) =>
       /\ history.decision'.inputs # {}
       /\ \A i \in history.decision'.inputs :
            FacingBet(i, history.decision'.action)
       /\ history.decision'.action = "check"
            => /\ history.last'.action = "call"
               /\ BetInStep("opponent") = Min(Owed, opponent.stack)
       /\ history.decision'.action = "fold"
            => opponent.folded' /\ BetInStep("opponent") = 0]_vars

\* the opponent has called a bet on the flop, on an equity below 1
C19_Witness ==
  /\ stage = "turn"
  /\ history.last = [actor |-> "opponent", action |-> "call"]
  /\ history.decision.action = "check"
  /\ history.put.opponent > bigBlind
  /\ \E i \in history.decision.inputs : i.equity < EquityScale


(***************************************************************************)
(* The evaluator on hands of its own.  The hands are the 5-, 6- and 7-card *)
(* subsets of EvalPool, which holds the spades A 2 3 4 5 6, the other      *)
(* three fives and a second deuce: every category can be made from them,   *)
(* the wheel and the six-high straight both suited and unsuited.           *)
(***************************************************************************)
\* card numbers: suit * 13 + rank value - 2
EvalPool == {12, 0, 1, 2, 3, 4, 16, 29, 42, 13}
EvalHands ==
  {Ascending(s) : s \in {t \in SUBSET EvalPool : Cardinality(t) \in 5 .. 7}}
\* evaluateHand(cards) for every hand of EvalHands, computed once
EvalTable == [h \in EvalHands |-> EvaluateHand(h)]

\* compareHands on the two hands, with evaluateHand looked up in table
ComparedWith(e, table) ==
  [e EXCEPT !.evalA = table[e.handA], !.evalB = table[e.handB],
            !.result = CompareEvals(table[e.handA], table[e.handB]),
            !.compared = TRUE]

EvalInit ==
  /\ PageLoaded
  /\ \E a \in EvalHands, b \in EvalHands :
       evaluation = [NoEvaluation EXCEPT !.handA = a, !.handB = b]

Evaluate ==
  /\ ~evaluation.compared
  /\ evaluation' = ComparedWith(evaluation, EvalTable)
  /\ UNCHANGED << stackScenario, opponentType, playerStartStack,
                  opponentStartStack, player, opponent, button, deck, board,
                  pot, stage, actionLog, turn, awaitingUser, timers, hidden,
                  display, hands, clicks, history >>

EvalNext == Evaluate

EvalSpec == EvalInit /\ [][EvalNext]_vars

(***************************************************************************)
(* The category of a hand by the rules of poker, stated on sets of cards   *)
(* without reference to the evaluator.                                     *)
(***************************************************************************)
RanksIn(S) == {RankValue(c) : c \in S}
MostAlike(S) ==
  MaxOf({Cardinality({c \in S : RankValue(c) = r}) : r \in RanksIn(S)})
OneSuit(S) == Cardinality({SuitOf(c) : c \in S}) = 1
WheelRanks == {14, 2, 3, 4, 5}
InARow(S) ==
  /\ Cardinality(RanksIn(S)) = 5
  /\ \/ MaxOf(RanksIn(S)) - MinOf(RanksIn(S)) = 4
     \/ RanksIn(S) = WheelRanks
\* S is a set of five cards
CategoryOfFive(S) ==
  IF OneSuit(S) /\ InARow(S) THEN 8
  ELSE IF MostAlike(S) = 4 THEN 7
  ELSE IF MostAlike(S) = 3 /\ Cardinality(RanksIn(S)) = 2 THEN 6
  ELSE IF OneSuit(S) THEN 5
  ELSE IF InARow(S) THEN 4
  ELSE IF MostAlike(S) = 3 THEN 3
  ELSE IF MostAlike(S) = 2 /\ Cardinality(RanksIn(S)) = 3 THEN 2
  ELSE IF MostAlike(S) = 2 THEN 1
  ELSE 0
CardsOf(h) == {h[k] : k \in 1 .. Len(h)}
BestCategory(h) ==
  MaxOf({CategoryOfFive(S) :
           S \in {T \in SUBSET CardsOf(h) : Cardinality(T) = 5}})
CategoryTable == [h \in EvalHands |-> BestCategory(h)]
CategoryIn(table, h) == table[h]

\* the five cards A-2-3-4-5, and the five cards 2-3-4-5-6
IsWheelHand(h) == Len(h) = 5 /\ RanksIn(CardsOf(h)) = WheelRanks
IsSixHigh(h) == Len(h) = 5 /\ RanksIn(CardsOf(h)) = 2 .. 6
WheelResult(h) ==
  [category |-> IF OneSuit(CardsOf(h)) THEN 8 ELSE 4, values |-> << 5 >>]

\* C20: once two hands of five to seven cards are compared, each has been
\* given the category of its best five cards (straight flush 8 > quads 7 >
\* full house 6 > flush 5 > straight 4 > trips 3 > two pair 2 > pair 1 > high
\* card 0), the hand of the higher category wins whatever the tie-break
\* values are, A-2-3-4-5 evaluates to category 4 with values [5] unsuited and
\* to category 8 with values [5] suited, and it loses to the six-high
\* straight of its category.
C20_CategoryOrder ==
  evaluation.compared =>
    /\ evaluation.evalA.category = CategoryIn(CategoryTable, evaluation.handA)
    /\ evaluation.evalB.category = CategoryIn(CategoryTable, evaluation.handB)
    /\ evaluation.evalA.category > evaluation.evalB.category
         => evaluation.result = 1
    /\ evaluation.evalA.category < evaluation.evalB.category
         => evaluation.result = -1
    /\ IsWheelHand(evaluation.handA)
         => evaluation.evalA = WheelResult(evaluation.handA)
    /\ IsWheelHand(evaluation.handB)
         => evaluation.evalB = WheelResult(evaluation.handB)
    /\ ( /\ IsWheelHand(evaluation.handA)
         /\ IsSixHigh(evaluation.handB)
         /\ OneSuit(CardsOf(evaluation.handA))
              = OneSuit(CardsOf(evaluation.handB)) )
         => evaluation.result = -1
    /\ ( /\ IsSixHigh(evaluation.handA)
         /\ IsWheelHand(evaluation.handB)
         /\ OneSuit(CardsOf(evaluation.handA))
              = OneSuit(CardsOf(evaluation.handB)) )
         => evaluation.result = 1
\* the suited wheel has beaten four fives with an ace, whose tie-break values
\* are not lower than its own
C20_Witness ==
  /\ evaluation.compared
  /\ IsWheelHand(evaluation.handA)
  /\ evaluation.evalA = [category |-> 8, values |-> << 5 >>]
  /\ evaluation.evalB = [category |-> 7, values |-> << 5, 14 >>]
  /\ evaluation.result = 1


(***************************************************************************)
(* compareHands on three pairs of hole cards and a board of five, all of   *)
(* distinct cards of ComparePool: the spades A K Q J T 9, the hearts A K   *)
(* 2 and the diamonds A 2.                                                 *)
(***************************************************************************)
ComparePool == {12, 11, 10, 9, 8, 7, 25, 24, 13, 38, 26}
\* the sets of n cards of S, each as an array in ascending order
HandsOf(S, n) == {Ascending(t) : t \in {u \in SUBSET S : Cardinality(u) = n}}
CompareBoards == HandsOf(ComparePool, 5)
\* evaluateHand(hand.concat(board)) for every board and every pair of hole
\* cards beside it, computed once
ShowdownTable ==
  [h \in UNION {{<< hole, b >> : hole \in HandsOf(ComparePool \ CardsOf(b), 2)} :
                  b \in CompareBoards} |->
     EvaluateHand(h[1] \o h[2])]
\* compareHands(handA, handB, community), with evaluateHand looked up
CompareIn(table, handA, handB, community) ==
  CompareEvals(table[<< handA, community >>], table[<< handB, community >>])
\* the four calls of compareHands on the three hands
ComparedAll(e, table) ==
  [e EXCEPT !.ab = CompareIn(table, e.handA, e.handB, e.community),
            !.ba = CompareIn(table, e.handB, e.handA, e.community),
            !.bc = CompareIn(table, e.handB, e.handC, e.community),
            !.ac = CompareIn(table, e.handA, e.handC, e.community),
            !.compared = TRUE]

CompareInit ==
  /\ PageLoaded
  /\ \E b \in CompareBoards :
       \E x \in HandsOf(ComparePool \ CardsOf(b), 2) :
         \E y \in HandsOf((ComparePool \ CardsOf(b)) \ CardsOf(x), 2) :
           \E z \in HandsOf(((ComparePool \ CardsOf(b)) \ CardsOf(x))
                              \ CardsOf(y), 2) :
             evaluation = [handA |-> x, handB |-> y, handC |-> z,
                           community |-> b, ab |-> 0, ba |-> 0, bc |-> 0,
                           ac |-> 0, compared |-> FALSE]

CompareThree ==
  /\ ~evaluation.compared
  /\ evaluation' = ComparedAll(evaluation, ShowdownTable)
  /\ UNCHANGED << stackScenario, opponentType, playerStartStack,
                  opponentStartStack, player, opponent, button, deck, board,
                  pot, stage, actionLog, turn, awaitingUser, timers, hidden,
                  display, hands, clicks, history >>

CompareNext == CompareThree

CompareSpec == CompareInit /\ [][CompareNext]_vars

\* C21: for hole cards A, B, C and a board of five cards, all distinct,
\* compareHands(A, B, board) = -compareHands(B, A, board), and if A is not
\* worse than B and B is not worse than C then A is not worse than C.
C21_CompareOrder ==
  evaluation.compared =>
    /\ evaluation.ab = -evaluation.ba
    /\ (evaluation.ab >= 0 /\ evaluation.bc >= 0) => evaluation.ac >= 0
\* A ties with B on the tie-break values of one category, B beats C, and so
\* does A
C21_Witness ==
  /\ evaluation.compared
  /\ evaluation.ab = 0
  /\ evaluation.ba = 0
  /\ evaluation.bc = 1
  /\ evaluation.ac = 1
  /\ CardsOf(evaluation.handA) \cap CardsOf(evaluation.handB) = {}


\* the bets are level once actor who has put moved more chips in
Levelled(who, moved) ==
  Seat(who).currentBet + moved = Seat(Other(who)).currentBet
\* the action of the step closes the betting round: the opponent's check,
\* call, raise or all-in, or the player's check or call, that levels the bets
ClosesRound(who, moved) ==
  /\ Levelled(who, moved)
  /\ IF who = "player" THEN history.last'.action \in {"check", "call"}
     ELSE history.last'.action # "fold"
\* the step runs goToShowdown and awards the pot: after a fold, at the close
\* of the river, and from nextAction when a player has folded before
AwardsPot(who, moved) ==
  \/ history.last'.action = "fold"
  \/ ClosesRound(who, moved) /\ stage = "river"
  \/ player.folded
  \/ opponent.folded
\* the amount a raise adds to the call: the slider's value or aiAction's
RaiseAdded(who) ==
  IF who = "player"
  THEN {a \in SliderValues : a <= display.raiseMax}
  ELSE {history.decision'.raiseAmount}

C23_PlayerOnButtonFirst ==
  [][/\ ContinueStep
          => /\ button' = "player"
             /\ history.put'.player = Min(bigBlind \div 2, playerStartStack')
     /\ NextHandStep => button' = Other(button)]_vars


\* C24: every call of evaluateHand for an entry of the hand report was given
\* 5 to 7 cards and returned a category in 0..8, and a showdown that compares
\* the hands evaluates 7 cards for each player.
C24_EvaluatorInputs ==
  /\ \A k \in 1 .. Len(history.evaluated) :
       /\ history.evaluated[k].cards \in 5 .. 7
       /\ history.evaluated[k].category \in 0 .. 8
  /\ (stage = "showdown" /\ ~player.folded /\ ~opponent.folded)
       => /\ Len(player.cards \o board) = 7
          /\ Len(opponent.cards \o board) = 7
\* the calls of evaluateHand for report entries made on the flop or later
\* were given 5 to 7 cards and returned a category in 0..8
C24_EvaluatorPostflop ==
  \A k \in 1 .. Len(history.evaluated) :
    history.evaluated[k].cards > 2
      => /\ history.evaluated[k].cards \in 5 .. 7
         /\ history.evaluated[k].category \in 0 .. 8


\* C25: both stacks, both currentBets and the pot are whole numbers of chips
\* and never below 0; a pot that is split is even; and no blind, call, raise
\* or all-in takes more chips from an actor than its stack holds, or fewer
\* than none.
C25_ChipsWholeAndNonNegative ==
  /\ [](/\ player.stack \in Nat
        /\ opponent.stack \in Nat
        /\ player.currentBet \in Nat
        /\ opponent.currentBet \in Nat
        /\ pot \in Nat)
  /\ [][\A who \in Seats :
          /\ ActionStep(who)
               => /\ BetInStep(who) \in 0 .. Seat(who).stack
                  /\ BetInStep(Other(who)) = 0
          /\ HandStarts
               => /\ history.put'[who] \in 0 .. history.start'[who]
                  /\ Seat(who)'.stack = history.start'[who] - history.put'[who]
          /\ ( /\ stage = "river"
               /\ stage' = "showdown"
               /\ ~player'.folded
               /\ ~opponent'.folded )
               => pot' % 2 = 0]_vars
\* the opponent's call of the player's all-in was capped at its stack
C25_Witness ==
  /\ history.last = [actor |-> "opponent", action |-> "call"]
  /\ history.asked > history.put.opponent
  /\ opponent.stack = 0
  /\ player.stack = 0
  /\ player.currentBet > opponent.currentBet


\* the number of showdown entries in the log
ShowdownEntries(log) ==
  Cardinality({k \in 1 .. Len(log) : log[k].actor = "system"})

\* C26: within a hand the pot is awarded once: a hand at showdown has one
\* showdown entry in its log, and from the award until the next startHand no
\* step changes a stack or the pot.
C26_AwardedOnce ==
  /\ []((stage = "showdown" /\ Len(actionLog) < MaxLog)
          => ShowdownEntries(actionLog) = 1)
  /\ [][(stage = "showdown" /\ ~HandStarts)
          => /\ player'.stack = player.stack
             /\ opponent'.stack = opponent.stack
             /\ pot' = pot]_vars


\* the aiAction callbacks that are pending
PendingAi == {k \in 1 .. Len(timers) : timers[k] = "aiAction"}

\* C27: at most one aiAction callback is pending; none is pending while the
\* player is awaited or once the hand is at showdown, and none is pending
\* at the click that starts a hand.
C27_OneCallbackPending ==
  /\ [](/\ Cardinality(PendingAi) <= 1
        /\ awaitingUser => PendingAi = {}
        /\ stage = "showdown" => PendingAi = {})
  /\ [][HandStarts => (PendingAi = {})]_vars


\* C28: when a showdown is decided by comparing the hands, both players
\* have put the same number of chips into the hand, the pot is the sum of
\* the two and so even, and in a tie each stack grows by exactly half of it.
C28_EvenPotAtShowdown ==
  [][( /\ stage = "river"
       /\ stage' = "showdown"
       /\ ~player'.folded
       /\ ~opponent'.folded )
       => /\ history.put'.player = history.put'.opponent
          /\ pot' = history.put'.player + history.put'.opponent
          /\ pot' % 2 = 0
          /\ Compare(player.cards, opponent.cards, board) = 0
               => \A who \in Seats :
                    2 * (Seat(who)'.stack + BetInStep(who) - Seat(who).stack)
                      = pot']_vars
\* a tied showdown has given each player the half of an even pot
C28_Witness ==
  /\ stage = "showdown"
  /\ ~player.folded
  /\ ~opponent.folded
  /\ Len(board) = 5
  /\ Compare(player.cards, opponent.cards, board) = 0
  /\ pot > 2 * bigBlind
  /\ history.put.player = history.put.opponent
  /\ 2 * history.put.player = pot
  /\ 2 * (player.stack - history.start.player + history.put.player) = pot
  /\ timers # << >>
  /\ Head(timers) = "performAnalysis"


\* C29: a street is left for the next one, or the river for a showdown that
\* compares the hands, only once both players have acted on it; so a check
\* by the first actor of a street after the flop passes the turn to the other
\* player and leaves the stage as it is.
C29_BothActOnStreet ==
  [][\A who \in Seats :
       ( /\ ActionStep(who)
         /\ stage \in BettingStages
         /\ ~player.folded
         /\ ~opponent.folded )
         => /\ ( /\ stage' # stage
                 /\ ~player'.folded
                 /\ ~opponent'.folded )
                 => history.acted'.who = Seats
            /\ ( /\ stage # "preflop"
                 /\ history.acted.stage # stage
                 /\ history.last'.action = "check" )
                 => stage' = stage /\ turn' = Other(who)]_vars


\* C30: a run of aiAction in which the opponent owes no bet (the player's
\* currentBet is not above its own) ends in a check, a raise or an all-in by
\* the opponent, never in a fold, whatever the archetype, the stage, the
\* stacks, the equity and the random draws are.
C30_NoFoldUnowed ==
  [][(AiStep /\ player.currentBet <= opponent.currentBet)
       => /\ history.last'.actor = "opponent"
          /\ history.last'.action \in {"check", "raise", "allin"}
          /\ history.decision'.action = history.last'.action
          /\ opponent'.folded = opponent.folded]_vars
\* in the big blind and first to act, the opponent has checked its option
C30_Witness ==
  /\ history.last = [actor |-> "opponent", action |-> "check"]
  /\ stage = "preflop"
  /\ button = "player"
  /\ opponent.currentBet = bigBlind
  /\ player.currentBet < opponent.currentBet
  /\ awaitingUser

=============================================================================
